---- MODULE Spec2Model ----
(***************************************************************************)
(* Query-routing agent of main.py: router_node, weather_node (city         *)
(* extraction, get_weather, answer formatting), pdf_rag_node, the          *)
(* two-branch LangGraph workflow of build_agent_graph, and the Streamlit   *)
(* script main() with its cached initialize_components.                    *)
(*                                                                         *)
(* Python str values are sequences of one-character strings, so that       *)
(* lower(), split(), strip(), title(), join(), `in` and f-string           *)
(* formatting are computed character by character.                         *)
(***************************************************************************)
EXTENDS Integers, Sequences, FiniteSets, TLC

VARIABLES
    pdf_exists,    \* os.path.exists("LogicLoom_Company_Profile_Healthcare.pdf")
    cache,         \* st.cache_resource memo of initialize_components
    collection,    \* documents held by the Qdrant collection "pdf_knowledge_base"
    pc,            \* position of the script: "idle", a graph node, "END", "raised"
    state,         \* the AgentState the graph is working on
    trace,         \* graph nodes executed by the current invoke, in order
    calls,         \* per invoke: calls of get_weather, the retriever, the LLM chain
    city_arg,      \* argument of the last get_weather call
    http,          \* what requests.get did in the last get_weather call
    returned       \* value the last get_weather call returned

vars == <<pdf_exists, cache, collection, pc, state, trace, calls, city_arg, http, returned>>

(***************************************************************************)
(* Python str operations                                                   *)
(***************************************************************************)
ascii_lowercase == <<"a","b","c","d","e","f","g","h","i","j","k","l","m","n","o","p","q","r","s","t","u","v","w","x","y","z">>
ascii_uppercase == <<"A","B","C","D","E","F","G","H","I","J","K","L","M","N","O","P","Q","R","S","T","U","V","W","X","Y","Z">>
digits == <<"0","1","2","3","4","5","6","7","8","9">>

IndexIn(c, letters) == CHOOSE i \in 1..Len(letters) : letters[i] = c

IsUpper(c) == \E i \in 1..Len(ascii_uppercase) : ascii_uppercase[i] = c
IsLower(c) == \E i \in 1..Len(ascii_lowercase) : ascii_lowercase[i] = c
IsCased(c) == IsUpper(c) \/ IsLower(c)
IsSpace(c) == c \in {" ", "\n", "\t"}

LowerChar(c) == IF IsUpper(c) THEN ascii_lowercase[IndexIn(c, ascii_uppercase)] ELSE c
UpperChar(c) == IF IsLower(c) THEN ascii_uppercase[IndexIn(c, ascii_lowercase)] ELSE c

\* s.lower()
lower(s) == [i \in 1..Len(s) |-> LowerChar(s[i])]

\* s.title(): a cased character is upper-cased after an uncased one (or at the
\* start) and lower-cased after a cased one
title(s) ==
    [i \in 1..Len(s) |->
        IF i > 1 /\ IsCased(s[i - 1]) THEN LowerChar(s[i]) ELSE UpperChar(s[i])]

\* sub in s
Contains(s, sub) ==
    \E i \in 0..(Len(s) - Len(sub)) : SubSeq(s, i + 1, i + Len(sub)) = sub

\* s.strip()
strip(s) ==
    LET keep == {i \in 1..Len(s) : ~IsSpace(s[i])}
    IN  IF keep = {} THEN <<>>
        ELSE SubSeq(s, CHOOSE i \in keep : \A j \in keep : i <= j,
                       CHOOSE i \in keep : \A j \in keep : j <= i)

\* s.split(): the maximal runs of non-whitespace characters, in order
RECURSIVE split_from(_, _, _)
split_from(s, i, word) ==
    IF i > Len(s) THEN (IF word = <<>> THEN <<>> ELSE <<word>>)
    ELSE IF IsSpace(s[i])
         THEN (IF word = <<>> THEN <<>> ELSE <<word>>) \o split_from(s, i + 1, <<>>)
         ELSE split_from(s, i + 1, Append(word, s[i]))

split(s) == split_from(s, 1, <<>>)

\* sep.join(words)
RECURSIVE join(_, _)
join(sep, words) ==
    IF words = <<>> THEN <<>>
    ELSE IF Len(words) = 1 THEN words[1]
    ELSE words[1] \o sep \o join(sep, Tail(words))

\* str(n) for an int n >= 0
RECURSIVE str(_)
str(n) == IF n < 10 THEN <<digits[n + 1]>> ELSE str(n \div 10) \o <<digits[(n % 10) + 1]>>

(***************************************************************************)
(* JSON values as response.json() returns them, and the Python operations  *)
(* get_weather applies to them.  A value is null, a str, a list or a dict  *)
(* with str keys.                                                          *)
(***************************************************************************)
JNull == [t |-> "null", s |-> <<>>, a |-> <<>>, o |-> <<>>]
JStr(s) == [t |-> "string", s |-> s, a |-> <<>>, o |-> <<>>]
JArr(a) == [t |-> "array", s |-> <<>>, a |-> a, o |-> <<>>]
\* a dict from a set of <<key, value>> pairs with distinct keys
JObj(pairs) ==
    [t |-> "object", s |-> <<>>, a |-> <<>>,
     o |-> [k \in {p[1] : p \in pairs} |-> (CHOOSE p \in pairs : p[1] = k)[2]]]

\* type(v).__name__
TypeName(v) ==
    CASE v.t = "null" -> <<"N","o","n","e","T","y","p","e">>
      [] v.t = "string" -> <<"s","t","r">>
      [] v.t = "array" -> <<"l","i","s","t">>
      [] v.t = "object" -> <<"d","i","c","t">>

\* the outcome of evaluating an expression: a value, or an exception with str(e)
Ret(v) == [raised |-> FALSE, msg |-> <<>>, val |-> v]
Exc(msg) == [raised |-> TRUE, msg |-> msg, val |-> JNull]

\* bool(v)
Truthy(v) ==
    CASE v.t = "null" -> FALSE
      [] v.t = "string" -> v.s # <<>>
      [] v.t = "array" -> v.a # <<>>
      [] v.t = "object" -> DOMAIN v.o # {}

\* key in v, for a str key
py_in(key, v) ==
    CASE v.t = "object" -> Ret(key \in DOMAIN v.o)
      [] v.t = "array" -> Ret(\E i \in 1..Len(v.a) : v.a[i] = JStr(key))
      [] v.t = "string" -> Ret(Contains(v.s, key))
      [] v.t = "null" ->
            Exc(<<"a","r","g","u","m","e","n","t"," ","o","f"," ","t","y","p","e"," ","'">> \o TypeName(v) \o <<"'"," ","i","s"," ","n","o","t"," ","i","t","e","r","a","b","l","e">>)

\* v[key], for a str key
getitem_str(v, key) ==
    CASE v.t = "object" ->
            IF key \in DOMAIN v.o THEN Ret(v.o[key])
            ELSE Exc(<<"'">> \o key \o <<"'">>)
      [] v.t = "array" -> Exc(<<"l","i","s","t"," ","i","n","d","i","c","e","s"," ","m","u","s","t"," ","b","e"," ","i","n","t","e","g","e","r","s"," ","o","r"," ","s","l","i","c","e","s",","," ","n","o","t"," ","s","t","r">>)
      [] v.t = "string" -> Exc(<<"s","t","r","i","n","g"," ","i","n","d","i","c","e","s"," ","m","u","s","t"," ","b","e"," ","i","n","t","e","g","e","r","s",","," ","n","o","t"," ","'","s","t","r","'">>)
      [] v.t = "null" -> Exc(<<"'","N","o","n","e","T","y","p","e","'"," ","o","b","j","e","c","t"," ","i","s"," ","n","o","t"," ","s","u","b","s","c","r","i","p","t","a","b","l","e">>)

\* v[0]
getitem_0(v) ==
    CASE v.t = "array" ->
            IF v.a # <<>> THEN Ret(v.a[1]) ELSE Exc(<<"l","i","s","t"," ","i","n","d","e","x"," ","o","u","t"," ","o","f"," ","r","a","n","g","e">>)
      [] v.t = "string" ->
            IF v.s # <<>> THEN Ret(JStr(<<v.s[1]>>)) ELSE Exc(<<"s","t","r","i","n","g"," ","i","n","d","e","x"," ","o","u","t"," ","o","f"," ","r","a","n","g","e">>)
      [] v.t = "object" -> Exc(<<"0">>)
      [] v.t = "null" -> Exc(<<"'","N","o","n","e","T","y","p","e","'"," ","o","b","j","e","c","t"," ","i","s"," ","n","o","t"," ","s","u","b","s","c","r","i","p","t","a","b","l","e">>)

\* faulty variant of dict_get: v[key] in place of v.get(key, default)
dict_get_indexed(v, key, default) == getitem_str(v, key)

\* v.get(key, default)
dict_get(v, key, default) ==
    IF v.t = "object"
    THEN Ret(IF key \in DOMAIN v.o THEN v.o[key] ELSE default)
    ELSE Exc(<<"'">> \o TypeName(v) \o <<"'"," ","o","b","j","e","c","t"," ","h","a","s"," ","n","o"," ","a","t","t","r","i","b","u","t","e"," ","'","g","e","t","'">>)

\* f"{v}" for the values a weather field holds
format(v) ==
    CASE v.t = "string" -> v.s
      [] v.t = "null" -> <<"N","o","n","e">>

(***************************************************************************)
(* get_weather                                                             *)
(***************************************************************************)
\* outcomes of requests.get(url, headers=headers, timeout=15)
Response(status_code, is_json, json) ==
    [raises |-> "None", msg |-> <<>>, status_code |-> status_code,
     is_json |-> is_json, json |-> json]
Timeout ==
    [raises |-> "Timeout", msg |-> <<>>, status_code |-> 0,
     is_json |-> FALSE, json |-> JNull]
RequestException(msg) ==
    [raises |-> "RequestException", msg |-> msg, status_code |-> 0,
     is_json |-> FALSE, json |-> JNull]

Failure(error) == [success |-> FALSE, error |-> error]

\* the catch-all handler: except Exception as e
except_Exception(msg) == Failure(<<"E","r","r","o","r",":"," ">> \o msg)

\* the success record built from current = data['current_condition'][0]
weather_record(city, current) ==
    LET temperature == dict_get(current, <<"t","e","m","p","_","C">>, JStr(<<"N","/","A">>))
        feels_like == dict_get(current, <<"F","e","e","l","s","L","i","k","e","C">>, JStr(<<"N","/","A">>))
        humidity == dict_get(current, <<"h","u","m","i","d","i","t","y">>, JStr(<<"N","/","A">>))
        weatherDesc == dict_get(current, <<"w","e","a","t","h","e","r","D","e","s","c">>,
                                JArr(<<JObj({<<<<"v","a","l","u","e">>, JStr(<<"U","n","k","n","o","w","n">>)>>})>>))
        first == getitem_0(weatherDesc.val)
        description == getitem_str(first.val, <<"v","a","l","u","e">>)
        wind_speed == dict_get(current, <<"w","i","n","d","s","p","e","e","d","M","i","l","e","s">>, JStr(<<"N","/","A">>))
    IN  IF temperature.raised THEN except_Exception(temperature.msg)
        ELSE IF first.raised THEN except_Exception(first.msg)
        ELSE IF description.raised THEN except_Exception(description.msg)
        ELSE [success |-> TRUE,
              city |-> title(city),
              temperature |-> temperature.val,
              feels_like |-> feels_like.val,
              humidity |-> humidity.val,
              description |-> description.val,
              wind_speed |-> wind_speed.val]

\* the handling of a 200 response whose body parsed as JSON
parse_weather(city, data) ==
    LET has == py_in(<<"c","u","r","r","e","n","t","_","c","o","n","d","i","t","i","o","n">>, data)
        condition == getitem_str(data, <<"c","u","r","r","e","n","t","_","c","o","n","d","i","t","i","o","n">>)
        current == getitem_0(condition.val)
    IN  IF has.raised THEN except_Exception(has.msg)
        ELSE IF ~has.val THEN Failure(<<"I","n","v","a","l","i","d"," ","w","e","a","t","h","e","r"," ","d","a","t","a"," ","r","e","c","e","i","v","e","d">>)
        ELSE IF condition.raised THEN except_Exception(condition.msg)
        ELSE IF ~Truthy(condition.val) THEN Failure(<<"I","n","v","a","l","i","d"," ","w","e","a","t","h","e","r"," ","d","a","t","a"," ","r","e","c","e","i","v","e","d">>)
        ELSE IF current.raised THEN except_Exception(current.msg)
        ELSE weather_record(city, current.val)

get_weather(city, outcome) ==
    CASE outcome.raises = "Timeout" ->
            Failure(<<"R","e","q","u","e","s","t"," ","t","i","m","e","o","u","t"," ","-"," ","p","l","e","a","s","e"," ","t","r","y"," ","a","g","a","i","n">>)
      [] outcome.raises = "RequestException" ->
            Failure(<<"N","e","t","w","o","r","k"," ","e","r","r","o","r",":"," ">> \o outcome.msg)
      [] outcome.raises = "None" ->
            IF outcome.status_code = 200
            THEN IF ~outcome.is_json
                 THEN Failure(<<"I","n","v","a","l","i","d"," ","r","e","s","p","o","n","s","e"," ","f","r","o","m"," ","w","e","a","t","h","e","r"," ","s","e","r","v","i","c","e">>)
                 ELSE parse_weather(strip(city), outcome.json)
            ELSE Failure(<<"C","i","t","y"," ","n","o","t"," ","f","o","u","n","d"," ","o","r"," ","s","e","r","v","i","c","e"," ","u","n","a","v","a","i","l","a","b","l","e"," ","(","S","t","a","t","u","s",":"," ">>
                         \o str(outcome.status_code) \o <<")">>)

(***************************************************************************)
(* Agent nodes                                                             *)
(***************************************************************************)
\* the initial_state main() hands to agent_app.invoke
initial_state(query) ==
    [query |-> query, messages |-> <<>>, routing_decision |-> <<>>,
     final_answer |-> <<>>, tool_results |-> <<>>]

\* faulty variant of router_node: the query is not lower-cased
router_node_case_sensitive(st) ==
    LET decision ==
            IF \E word \in {<<"w","e","a","t","h","e","r">>, <<"t","e","m","p","e","r","a","t","u","r","e">>, <<"f","o","r","e","c","a","s","t">>, <<"c","l","i","m","a","t","e">>} :
                   Contains(st.query, word)
            THEN <<"w","e","a","t","h","e","r">>
            ELSE <<"p","d","f","_","r","a","g">>
    IN  [st EXCEPT !.routing_decision = decision,
                   !.messages = <<<<"R","o","u","t","i","n","g"," ","t","o",":"," ">> \o decision>>]

router_node(st) ==
    LET query == lower(st.query)
        decision ==
            IF \E word \in {<<"w","e","a","t","h","e","r">>, <<"t","e","m","p","e","r","a","t","u","r","e">>, <<"f","o","r","e","c","a","s","t">>, <<"c","l","i","m","a","t","e">>} :
                   Contains(query, word)
            THEN <<"w","e","a","t","h","e","r">>
            ELSE <<"p","d","f","_","r","a","g">>
    IN  [st EXCEPT !.routing_decision = decision,
                   !.messages = <<<<"R","o","u","t","i","n","g"," ","t","o",":"," ">> \o decision>>]

city_indicators == {<<"w","e","a","t","h","e","r">>, <<"i","n">>, <<"f","o","r">>, <<"a","t">>}

\* faulty variant of extract_city: the fallback takes the first word, and an
\* empty query yields an empty city
extract_city_first_word(query) ==
    LET words == split(query)
        hits == {i \in 1..Len(words) :
                    lower(words[i]) \in city_indicators /\ i + 1 <= Len(words)}
        first == CHOOSE i \in hits : \A j \in hits : i <= j
    IN  IF hits # {} THEN join(<<" ">>, SubSeq(words, first + 1, Len(words)))
        ELSE IF words # <<>> THEN words[1] ELSE <<>>

\* the city weather_node extracts from the query
extract_city(query) ==
    LET words == split(query)
        hits == {i \in 1..Len(words) :
                    lower(words[i]) \in city_indicators /\ i + 1 <= Len(words)}
        first == CHOOSE i \in hits : \A j \in hits : i <= j
        city == IF hits # {} THEN join(<<" ">>, SubSeq(words, first + 1, Len(words)))
                ELSE <<>>
    IN  IF city = <<>>
        THEN (IF words # <<>> THEN words[Len(words)] ELSE <<"L","o","n","d","o","n">>)
        ELSE city

\* faulty variant of weather_answer: a failed lookup is reported without its reason
weather_answer_without_reason(weather_data) ==
    IF weather_data.success
    THEN <<"W","e","a","t","h","e","r"," ","i","n"," ">> \o weather_data.city \o <<":","\n","-"," ","T","e","m","p","e","r","a","t","u","r","e",":"," ">>
         \o format(weather_data.temperature) \o <<"°","C"," ","(","f","e","e","l","s"," ","l","i","k","e"," ">>
         \o format(weather_data.feels_like) \o <<"°","C",")","\n","-"," ","C","o","n","d","i","t","i","o","n",":"," ">>
         \o format(weather_data.description) \o <<"\n","-"," ","H","u","m","i","d","i","t","y",":"," ">>
         \o format(weather_data.humidity) \o <<"%","\n","-"," ","W","i","n","d"," ","S","p","e","e","d",":"," ">>
         \o format(weather_data.wind_speed) \o <<" ","m","p","h">>
    ELSE <<"F","a","i","l","e","d"," ","t","o"," ","f","e","t","c","h"," ","w","e","a","t","h","e","r"," ","d","a","t","a">>

\* the answer weather_node formats from the record get_weather returned
weather_answer(weather_data) ==
    IF weather_data.success
    THEN <<"W","e","a","t","h","e","r"," ","i","n"," ">> \o weather_data.city \o <<":","\n","-"," ","T","e","m","p","e","r","a","t","u","r","e",":"," ">>
         \o format(weather_data.temperature) \o <<"°","C"," ","(","f","e","e","l","s"," ","l","i","k","e"," ">>
         \o format(weather_data.feels_like) \o <<"°","C",")","\n","-"," ","C","o","n","d","i","t","i","o","n",":"," ">>
         \o format(weather_data.description) \o <<"\n","-"," ","H","u","m","i","d","i","t","y",":"," ">>
         \o format(weather_data.humidity) \o <<"%","\n","-"," ","W","i","n","d"," ","S","p","e","e","d",":"," ">>
         \o format(weather_data.wind_speed) \o <<" ","m","p","h">>
    ELSE <<"F","a","i","l","e","d"," ","t","o"," ","f","e","t","c","h"," ","w","e","a","t","h","e","r"," ","d","a","t","a",":"," ">> \o weather_data.error

weather_node(st, outcome) ==
    LET weather_data == get_weather(extract_city(st.query), outcome)
    IN  [st EXCEPT !.tool_results = [k \in {<<"w","e","a","t","h","e","r">>} |-> weather_data],
                   !.final_answer = weather_answer(weather_data)]

\* number of documents the retriever returns: search_kwargs={"k": 3}
search_k == 3

\* the documents the retriever returns for a similarity ranking of the collection
retrieve(ranking) == SubSeq(ranking, 1, IF Len(ranking) < search_k THEN Len(ranking) ELSE search_k)

\* faulty variant of pdf_rag_node: the response is not stored in tool_results
pdf_rag_node_unrecorded(st, ranking, answer) ==
    [st EXCEPT !.final_answer = answer]

\* pdf_rag_node when retrieval_chain.invoke returns
pdf_rag_node(st, ranking, answer) ==
    LET response == [input |-> st.query, context |-> retrieve(ranking), answer |-> answer]
    IN  [st EXCEPT !.tool_results = [key \in {<<"p","d","f","_","r","a","g">>} |-> response],
                   !.final_answer = response.answer]

route_decision(st) == st.routing_decision

(***************************************************************************)
(* The workflow of build_agent_graph                                       *)
(***************************************************************************)
entry_point == "router"

\* add_conditional_edges("router", route_decision, {...})
conditional_edges ==
    [key \in {<<"w","e","a","t","h","e","r">>, <<"p","d","f","_","r","a","g">>} |->
        IF key = <<"w","e","a","t","h","e","r">> THEN "weather" ELSE "pdf_rag"]

\* faulty variant of next_node: an edge from "weather" to "pdf_rag" in place of
\* the edge from "weather" to END
next_node_chained(node, st) ==
    CASE node = "router" -> conditional_edges[route_decision(st)]
      [] node = "weather" -> "pdf_rag"
      [] node = "pdf_rag" -> "END"

\* the node the compiled graph runs after `node` has returned st
next_node(node, st) ==
    CASE node = "router" -> conditional_edges[route_decision(st)]
      [] node = "weather" -> "END"
      [] node = "pdf_rag" -> "END"

(***************************************************************************)
(* Inputs                                                                  *)
(***************************************************************************)
\* longest generated query, in words
MaxWords == 2

Vocabulary ==
    {<<"w","e","a","t","h","e","r">>, <<"F","o","r","e","c","a","s","t">>, <<"I","N">>, <<"P","a","r","i","s">>, <<"a","c","c","l","i","m","a","t","e">>, <<"t","e","l","l">>}

GeneratedQueries ==
    {join(<<" ">>, ws) : ws \in UNION {[1..n -> Vocabulary] : n \in 1..MaxWords}}

ScenarioQueries ==
    {<<"W","h","a","t","'","s"," ","t","h","e"," ","w","e","a","t","h","e","r"," ","i","n"," ","L","o","n","d","o","n","?">>,
     <<"w","e","a","t","h","e","r"," ","i","n"," ","P","a","r","i","s">>,
     <<"t","e","m","p","e","r","a","t","u","r","e"," ","f","o","r"," ","N","e","w"," ","Y","o","r","k"," ","C","i","t","y">>,
     <<"T","e","l","l"," ","m","e"," ","a","b","o","u","t"," ","t","h","e"," ","c","o","m","p","a","n","y">>,
     <<"c","l","i","m","a","t","e"," ","a","t"," "," ","R","o","m","e","\n">>,
     <<" ">>}

\* what the user may submit in the text area
Queries == GeneratedQueries \cup ScenarioQueries

\* arguments of a direct call of a node: also the empty query
UnitQueries == Queries \cup {<<>>, <<"\t","\n">>, <<" ","f","o","r","e","c","a","s","t"," ">>}

\* a current_condition[0] of wttr.in with every mapped field
full_condition ==
    {<<<<"t","e","m","p","_","C">>, JStr(<<"1","5">>)>>,
     <<<<"F","e","e","l","s","L","i","k","e","C">>, JStr(<<"1","3">>)>>,
     <<<<"h","u","m","i","d","i","t","y">>, JStr(<<"7","2">>)>>,
     <<<<"w","e","a","t","h","e","r","D","e","s","c">>, JArr(<<JObj({<<<<"v","a","l","u","e">>, JStr(<<"S","u","n","n","y">>)>>})>>)>>,
     <<<<"w","i","n","d","s","p","e","e","d","M","i","l","e","s">>, JStr(<<"7">>)>>}

Body(current_condition) == JObj({<<<<"c","u","r","r","e","n","t","_","c","o","n","d","i","t","i","o","n">>, current_condition>>})

\* bodies whose current_condition[0] holds any subset of the mapped fields
ConditionBodies == {Body(JArr(<<JObj(fields)>>)) : fields \in SUBSET full_condition}

\* other JSON bodies a server can answer with
OddBodies ==
    {JNull, JStr(<<"o","k">>), JStr(<<"n","o"," ","c","u","r","r","e","n","t","_","c","o","n","d","i","t","i","o","n">>), JArr(<<>>),
     JArr(<<JStr(<<"c","u","r","r","e","n","t","_","c","o","n","d","i","t","i","o","n">>)>>), JObj({}),
     JObj({<<<<"n","e","a","r","e","s","t","_","a","r","e","a">>, JArr(<<>>)>>}),
     Body(JNull), Body(JArr(<<>>)), Body(JStr(<<>>)), Body(JObj({})),
     Body(JObj({<<<<"t","e","m","p","_","C">>, JStr(<<"1","5">>)>>})),
     Body(JStr(<<"S","u","n","n","y">>)), Body(JArr(<<JNull>>)), Body(JArr(<<JStr(<<"S","u","n","n","y">>)>>)),
     Body(JArr(<<JObj({<<<<"w","e","a","t","h","e","r","D","e","s","c">>, JArr(<<>>)>>})>>)),
     Body(JArr(<<JObj({<<<<"w","e","a","t","h","e","r","D","e","s","c">>, JArr(<<JObj({})>>)>>})>>)),
     Body(JArr(<<JObj({<<<<"w","e","a","t","h","e","r","D","e","s","c">>, JNull>>})>>)),
     Body(JArr(<<JObj({<<<<"t","e","m","p","_","C">>, JNull>>})>>))}

StatusCodes == {200, 404, 500, 503}

HttpOutcomes ==
    {Response(200, TRUE, body) : body \in ConditionBodies \cup OddBodies}
    \cup {Response(code, FALSE, JNull) : code \in StatusCodes}
    \cup {Response(404, TRUE, JObj({}))}
    \cup {Timeout,
          RequestException(<<"C","o","n","n","e","c","t","i","o","n"," ","r","e","f","u","s","e","d">>),
          RequestException(<<>>)}

\* result of text_splitter.split_documents(documents) for the PDF
splits == {"chunk1", "chunk2", "chunk3", "chunk4"}

\* the orders in which a similarity search may rank a collection
Rankings(docs) ==
    {r \in [1..Cardinality(docs) -> docs] :
        \A i, j \in 1..Cardinality(docs) : i # j => r[i] # r[j]}

LlmAnswers == {<<"L","o","g","i","c","L","o","o","m"," ","b","u","i","l","d","s"," ","h","e","a","l","t","h","c","a","r","e"," ","s","o","f","t","w","a","r","e",".">>, <<>>}

UnitCities == {<<"P","a","r","i","s">>, <<" ","n","e","w"," ","y","o","r","k"," ","\n">>, <<"L","o","n","d","o","n","?">>, <<>>}

(***************************************************************************)
(* The Streamlit script                                                    *)
(***************************************************************************)
no_calls == [get_weather |-> 0, retriever |-> 0, llm |-> 0]
no_result == Failure(<<>>)
no_request == Response(0, FALSE, JNull)

\* initialize_components under st.cache_resource: the memoised value when there
\* is one; otherwise the body runs, and its return value is memoised unless it
\* raises (build_ok = FALSE: the embedding service fails in add_documents)
initialize_components(build_ok) ==
    IF cache.hit
    THEN [raised |-> FALSE, cache |-> cache, collection |-> collection]
    ELSE IF ~pdf_exists
    THEN [raised |-> FALSE, cache |-> [hit |-> TRUE, vector_store |-> "None"],
          collection |-> collection]
    ELSE IF ~build_ok
    THEN [raised |-> TRUE, cache |-> cache, collection |-> collection]
    ELSE [raised |-> FALSE,
          cache |-> [hit |-> TRUE, vector_store |-> "QdrantVectorStore"],
          collection |-> splits]

\* faulty variant of agent_ready: the `vector_store is None` test is missing
agent_ready_unchecked(vector_store) == TRUE

\* main() goes on to build the graph: not `if vector_store is None: return`
agent_ready(vector_store) == vector_store # "None"

\* one run of the script up to agent_app.invoke(initial_state)
main(query, button, build_ok) ==
    /\ pc = "idle"
    /\ LET components == initialize_components(build_ok)
       IN  /\ cache' = components.cache
           /\ collection' = components.collection
           /\ IF /\ ~components.raised
                 /\ agent_ready(components.cache.vector_store)
                 /\ button
                 /\ query # <<>>
              THEN /\ state' = initial_state(query)
                   /\ pc' = entry_point
              ELSE UNCHANGED <<state, pc>>
    /\ UNCHANGED <<pdf_exists, trace, calls, city_arg, http, returned>>

\* the graph runs router_node
router_step ==
    /\ pc = "router"
    /\ state' = router_node(state)
    /\ pc' = next_node("router", state')
    /\ trace' = Append(trace, "router")
    /\ UNCHANGED <<pdf_exists, cache, collection, calls, city_arg, http, returned>>

\* the graph runs weather_node; outcome is what the HTTP request does
weather_step(outcome) ==
    /\ pc = "weather"
    /\ state' = weather_node(state, outcome)
    /\ city_arg' = extract_city(state.query)
    /\ http' = outcome
    /\ returned' = get_weather(city_arg', outcome)
    /\ calls' = [calls EXCEPT !.get_weather = @ + 1]
    /\ pc' = next_node("weather", state')
    /\ trace' = Append(trace, "weather")
    /\ UNCHANGED <<pdf_exists, cache, collection>>

\* the graph runs pdf_rag_node; retrieval_chain.invoke embeds the query and
\* searches the collection, then calls the LLM; either service may raise, and
\* nothing in the node or the graph catches it
pdf_rag_step(ranking, answer, raises) ==
    /\ pc = "pdf_rag"
    /\ trace' = Append(trace, "pdf_rag")
    /\ calls' = [calls EXCEPT !.retriever = @ + 1,
                              !.llm = IF raises = "retriever" THEN @ ELSE @ + 1]
    /\ IF raises = "None"
       THEN /\ state' = pdf_rag_node(state, ranking, answer)
            /\ pc' = next_node("pdf_rag", state')
       ELSE /\ pc' = "raised"
            /\ UNCHANGED state
    /\ UNCHANGED <<pdf_exists, cache, collection, city_arg, http, returned>>

\* invoke has returned (the result is displayed) or raised: the script run ends
script_ends ==
    /\ pc \in {"END", "raised"}
    /\ pc' = "idle"
    /\ state' = initial_state(<<>>)
    /\ trace' = <<>>
    /\ calls' = no_calls
    /\ city_arg' = <<>>
    /\ http' = no_request
    /\ returned' = no_result
    /\ UNCHANGED <<pdf_exists, cache, collection>>

\* the PDF is put in place or removed between two runs of the script
pdf_file_changes ==
    /\ pc = "idle"
    /\ pdf_exists' = ~pdf_exists
    /\ UNCHANGED <<cache, collection, pc, state, trace, calls, city_arg, http, returned>>

Init ==
    /\ pdf_exists \in BOOLEAN
    /\ cache = [hit |-> FALSE, vector_store |-> "None"]
    /\ collection = {}
    /\ pc = "idle"
    /\ state = initial_state(<<>>)
    /\ trace = <<>>
    /\ calls = no_calls
    /\ city_arg = <<>>
    /\ http = no_request
    /\ returned = no_result

Next ==
    \/ /\ pc = "idle"
       /\ \E query \in Queries \cup {<<>>}, button \in BOOLEAN, build_ok \in BOOLEAN :
              main(query, button, build_ok)
    \/ router_step
    \/ /\ pc = "weather"
       /\ \E outcome \in HttpOutcomes : weather_step(outcome)
    \/ /\ pc = "pdf_rag"
       /\ \E ranking \in Rankings(collection), answer \in LlmAnswers,
             raises \in {"None", "retriever", "llm"} :
              pdf_rag_step(ranking, answer, raises)
    \/ script_ends
    \/ pdf_file_changes

Spec == Init /\ [][Next]_vars

(***************************************************************************)
(* Direct calls of the nodes and of get_weather, on any argument           *)
(***************************************************************************)
call_router_node ==
    /\ pc = "call"
    /\ state' = router_node(state)
    /\ pc' = "returned"
    /\ trace' = Append(trace, "router")
    /\ UNCHANGED <<pdf_exists, cache, collection, calls, city_arg, http, returned>>

call_weather_node(outcome) ==
    /\ pc = "call"
    /\ state' = weather_node(state, outcome)
    /\ city_arg' = extract_city(state.query)
    /\ http' = outcome
    /\ returned' = get_weather(city_arg', outcome)
    /\ calls' = [calls EXCEPT !.get_weather = @ + 1]
    /\ pc' = "returned"
    /\ trace' = Append(trace, "weather")
    /\ UNCHANGED <<pdf_exists, cache, collection>>

call_get_weather(city, outcome) ==
    /\ pc = "call"
    /\ city_arg' = city
    /\ http' = outcome
    /\ returned' = get_weather(city, outcome)
    /\ calls' = [calls EXCEPT !.get_weather = @ + 1]
    /\ pc' = "returned"
    /\ UNCHANGED <<pdf_exists, cache, collection, state, trace>>

UnitInit ==
    /\ pdf_exists = TRUE
    /\ cache = [hit |-> FALSE, vector_store |-> "None"]
    /\ collection = {}
    /\ pc = "call"
    /\ state \in {initial_state(query) : query \in UnitQueries}
    /\ trace = <<>>
    /\ calls = no_calls
    /\ city_arg = <<>>
    /\ http = no_request
    /\ returned = no_result

UnitNext ==
    \/ call_router_node
    \/ \E outcome \in HttpOutcomes : call_weather_node(outcome)
    \/ \E city \in UnitCities, outcome \in HttpOutcomes : call_get_weather(city, outcome)

UnitSpec == UnitInit /\ [][UnitNext]_vars

(***************************************************************************)
(* Properties                                                              *)
(***************************************************************************)
\* sub occurs in s when the case of the letters of s is ignored
MentionsIgnoringCase(s, sub) ==
    \E i \in 1..Len(s) :
        /\ i + Len(sub) - 1 <= Len(s)
        /\ \A j \in 1..Len(sub) : LowerChar(s[i + j - 1]) = sub[j]

StartsWith(s, prefix) ==
    /\ Len(prefix) <= Len(s)
    /\ \A i \in 1..Len(prefix) : s[i] = prefix[i]

\* a node of the graph has run weather_node in the current invoke
WeatherNodeRan == Len(trace) >= 1 /\ trace[Len(trace)] = "weather"

\* C1: router_node decides "weather" exactly for the queries that contain
\* "weather", "temperature", "forecast" or "climate" when case is ignored, and
\* the document-QA decision "pdf_rag" for every other query, the empty one
\* included; it returns one of the two for every query.
C1_RouterClassification ==
    (pc = "returned" /\ trace = <<"router">>) =>
        /\ state.routing_decision \in {<<"w","e","a","t","h","e","r">>, <<"p","d","f","_","r","a","g">>}
        /\ state.routing_decision = <<"w","e","a","t","h","e","r">> <=>
               \E word \in {<<"w","e","a","t","h","e","r">>, <<"t","e","m","p","e","r","a","t","u","r","e">>, <<"f","o","r","e","c","a","s","t">>, <<"c","l","i","m","a","t","e">>} :
                   MentionsIgnoringCase(state.query, word)
        /\ state.query = <<>> => state.routing_decision = <<"p","d","f","_","r","a","g">>

\* a query routed to weather although no keyword occurs in it as typed
C1_Witness ==
    /\ pc = "returned"
    /\ trace = <<"router">>
    /\ state.query = <<"F","o","r","e","c","a","s","t">>
    /\ state.routing_decision = <<"w","e","a","t","h","e","r">>

\* C2: in every invoke the router runs first, then exactly one branch, then the
\* run ends; the weather branch runs iff the decision is "weather"; a weather
\* run calls neither the retriever nor the LLM chain and a document-QA run
\* never calls get_weather.
C2_DispatchProtocol ==
    /\ trace \in {<<>>, <<"router">>, <<"router", "weather">>, <<"router", "pdf_rag">>}
    /\ pc = "router" => trace = <<>>
    /\ pc \in {"weather", "pdf_rag"} => trace = <<"router">>
    /\ pc = "END" => Len(trace) = 2
    /\ Len(trace) = 2 => pc \in {"END", "raised"}
    /\ pc = "raised" => trace = <<"router", "pdf_rag">>
    /\ (pc = "weather" \/ trace = <<"router", "weather">>) <=>
           (trace # <<>> /\ state.routing_decision = <<"w","e","a","t","h","e","r">>)
    /\ (pc = "pdf_rag" \/ trace = <<"router", "pdf_rag">>) <=>
           (trace # <<>> /\ state.routing_decision # <<"w","e","a","t","h","e","r">>)
    /\ trace = <<"router", "weather">> =>
           calls = [get_weather |-> 1, retriever |-> 0, llm |-> 0]
    /\ (pc = "END" /\ trace = <<"router", "pdf_rag">>) =>
           calls = [get_weather |-> 0, retriever |-> 1, llm |-> 1]
    /\ state.routing_decision = <<"w","e","a","t","h","e","r">> => calls.retriever = 0 /\ calls.llm = 0
    /\ state.routing_decision = <<"p","d","f","_","r","a","g">> => calls.get_weather = 0

\* a weather run that has ended
C2_Witness ==
    /\ pc = "END"
    /\ trace = <<"router", "weather">>
    /\ calls.get_weather = 1

\* C3: when invoke returns, tool_results holds exactly one entry, the one named
\* by routing_decision, which is the branch that ran.
C3_ResultInvariant ==
    pc = "END" =>
        /\ Cardinality(DOMAIN state.tool_results) = 1
        /\ DOMAIN state.tool_results = {state.routing_decision}
        /\ \/ state.routing_decision = <<"w","e","a","t","h","e","r">> /\ trace[2] = "weather"
           \/ state.routing_decision = <<"p","d","f","_","r","a","g">> /\ trace[2] = "pdf_rag"

\* a document-QA run that has returned its result
C3_Witness ==
    /\ pc = "END"
    /\ trace = <<"router", "pdf_rag">>
    /\ DOMAIN state.tool_results = {<<"p","d","f","_","r","a","g">>}

\* C4: when a word of the query is one of "weather", "in", "for", "at" (case
\* ignored) and words follow it, the city passed to get_weather is what follows
\* such a token; "weather in Paris" gives "Paris" and "temperature for New
\* York City" gives "New York City".
C4_CityAfterIndicator ==
    (WeatherNodeRan /\ calls.get_weather = 1) =>
        LET words == split(state.query)
        IN  /\ (\E i \in 1..(Len(words) - 1) : lower(words[i]) \in city_indicators) =>
                   \E i \in 1..(Len(words) - 1) :
                       /\ lower(words[i]) \in city_indicators
                       /\ city_arg = join(<<" ">>, SubSeq(words, i + 1, Len(words)))
            /\ state.query = <<"w","e","a","t","h","e","r"," ","i","n"," ","P","a","r","i","s">> => city_arg = <<"P","a","r","i","s">>
            /\ state.query = <<"t","e","m","p","e","r","a","t","u","r","e"," ","f","o","r"," ","N","e","w"," ","Y","o","r","k"," ","C","i","t","y">> =>
                   city_arg = <<"N","e","w"," ","Y","o","r","k"," ","C","i","t","y">>

\* C5: "What's the weather in London?" with a 200 answer holding a valid
\* current_condition ends with routing_decision "weather", get_weather called
\* with "London?", and a final_answer containing "Weather in London".
C5_LondonScenario ==
    (/\ pc = "END"
     /\ state.query = <<"W","h","a","t","'","s"," ","t","h","e"," ","w","e","a","t","h","e","r"," ","i","n"," ","L","o","n","d","o","n","?">>
     /\ http = Response(200, TRUE, Body(JArr(<<JObj(full_condition)>>)))) =>
        /\ state.routing_decision = <<"w","e","a","t","h","e","r">>
        /\ city_arg = <<"L","o","n","d","o","n","?">>
        /\ Contains(state.final_answer, <<"W","e","a","t","h","e","r"," ","i","n"," ","L","o","n","d","o","n">>)

\* the JSON body is an object with a non-empty 'current_condition'
HasCondition(json) ==
    /\ json.t = "object"
    /\ <<"c","u","r","r","e","n","t","_","c","o","n","d","i","t","i","o","n">> \in DOMAIN json.o
    /\ Truthy(json.o[<<"c","u","r","r","e","n","t","_","c","o","n","d","i","t","i","o","n">>])

\* what C6 says of every outcome but a 200 answer without current_condition
C6_OtherOutcomes ==
    /\ returned.success \in BOOLEAN
    /\ (http.raises = "None" /\ http.status_code # 200) =>
           /\ ~returned.success
           /\ Contains(returned.error, str(http.status_code))
    /\ (http.raises = "None" /\ http.status_code = 200 /\ ~http.is_json) =>
           /\ ~returned.success
           /\ returned.error = <<"I","n","v","a","l","i","d"," ","r","e","s","p","o","n","s","e"," ","f","r","o","m"," ","w","e","a","t","h","e","r"," ","s","e","r","v","i","c","e">>
    /\ http.raises = "Timeout" =>
           /\ ~returned.success
           /\ MentionsIgnoringCase(returned.error, <<"t","i","m","e","o","u","t">>)
    /\ http.raises = "RequestException" =>
           /\ ~returned.success
           /\ StartsWith(returned.error, <<"N","e","t","w","o","r","k"," ","e","r","r","o","r",":"," ">> \o http.msg)
    /\ returned.success =>
           /\ http.raises = "None"
           /\ http.status_code = 200
           /\ http.is_json
           /\ HasCondition(http.json)
    /\ ~returned.success => Len(returned.error) > 0

\* C6: get_weather returns a record for every outcome of the request;
\* a status other than 200 gives a failure naming the status, a 200 body that
\* is not JSON gives 'Invalid response ...', JSON with a missing or empty
\* current_condition gives 'Invalid weather data received', a timeout gives a
\* timeout message, another network failure a network-error message; success
\* only for 200 with a non-empty current_condition; every failure has an error.
C6_FailureMapping ==
    calls.get_weather = 1 =>
        /\ C6_OtherOutcomes
        /\ (/\ http.raises = "None"
            /\ http.status_code = 200
            /\ http.is_json
            /\ ~HasCondition(http.json)) =>
               /\ ~returned.success
               /\ returned.error = <<"I","n","v","a","l","i","d"," ","w","e","a","t","h","e","r"," ","d","a","t","a"," ","r","e","c","e","i","v","e","d">>

\* the 200 answer holds a current_condition[0] that is an object in which
\* weatherDesc is absent or a list starting with an object that has 'value'
WellFormedCondition ==
    /\ http.raises = "None" /\ http.status_code = 200 /\ http.is_json
    /\ HasCondition(http.json)
    /\ LET condition == http.json.o[<<"c","u","r","r","e","n","t","_","c","o","n","d","i","t","i","o","n">>]
       IN  /\ condition.t = "array"
           /\ condition.a[1].t = "object"
           /\ LET current == condition.a[1].o
              IN  <<"w","e","a","t","h","e","r","D","e","s","c">> \in DOMAIN current =>
                      /\ current[<<"w","e","a","t","h","e","r","D","e","s","c">>].t = "array"
                      /\ current[<<"w","e","a","t","h","e","r","D","e","s","c">>].a # <<>>
                      /\ current[<<"w","e","a","t","h","e","r","D","e","s","c">>].a[1].t = "object"
                      /\ <<"v","a","l","u","e">> \in DOMAIN current[<<"w","e","a","t","h","e","r","D","e","s","c">>].a[1].o

\* the fields of current_condition[0] in the last answer
CurrentFields == DOMAIN http.json.o[<<"c","u","r","r","e","n","t","_","c","o","n","d","i","t","i","o","n">>].a[1].o

\* C7 as stated: with such a current_condition[0], get_weather succeeds and every
\* result field whose JSON key is missing holds "N/A".
C7_MissingFieldsAsStated ==
    (calls.get_weather = 1 /\ WellFormedCondition) =>
        /\ returned.success
        /\ <<"t","e","m","p","_","C">> \notin CurrentFields => returned.temperature = JStr(<<"N","/","A">>)
        /\ <<"F","e","e","l","s","L","i","k","e","C">> \notin CurrentFields => returned.feels_like = JStr(<<"N","/","A">>)
        /\ <<"h","u","m","i","d","i","t","y">> \notin CurrentFields => returned.humidity = JStr(<<"N","/","A">>)
        /\ <<"w","e","a","t","h","e","r","D","e","s","c">> \notin CurrentFields => returned.description = JStr(<<"N","/","A">>)
        /\ <<"w","i","n","d","s","p","e","e","d","M","i","l","e","s">> \notin CurrentFields => returned.wind_speed = JStr(<<"N","/","A">>)

\* C7: with such a current_condition[0], get_weather succeeds; a missing temp_C,
\* FeelsLikeC, humidity or windspeedMiles gives "N/A" in temperature,
\* feels_like, humidity or wind_speed, and a missing weatherDesc gives the
\* description "Unknown".
C7_MissingFields ==
    (calls.get_weather = 1 /\ WellFormedCondition) =>
        /\ returned.success
        /\ <<"t","e","m","p","_","C">> \notin CurrentFields => returned.temperature = JStr(<<"N","/","A">>)
        /\ <<"F","e","e","l","s","L","i","k","e","C">> \notin CurrentFields => returned.feels_like = JStr(<<"N","/","A">>)
        /\ <<"h","u","m","i","d","i","t","y">> \notin CurrentFields => returned.humidity = JStr(<<"N","/","A">>)
        /\ <<"w","e","a","t","h","e","r","D","e","s","c">> \notin CurrentFields =>
               returned.description = JStr(<<"U","n","k","n","o","w","n">>)
        /\ <<"w","i","n","d","s","p","e","e","d","M","i","l","e","s">> \notin CurrentFields => returned.wind_speed = JStr(<<"N","/","A">>)

\* an answer with an empty current_condition[0]: every field degraded
C7_Witness ==
    /\ calls.get_weather = 1
    /\ WellFormedCondition
    /\ CurrentFields = {}
    /\ returned.success
    /\ returned.temperature = JStr(<<"N","/","A">>)
    /\ returned.description = JStr(<<"U","n","k","n","o","w","n">>)

\* C8: when the weather branch runs and get_weather returns success = False, the
\* invoke still returns; final_answer is "Failed to fetch weather data: "
\* followed by the error of the record, and tool_results holds that record.
C8_WeatherFailureSurfaced ==
    (WeatherNodeRan /\ ~returned.success) =>
        /\ pc \in {"END", "returned"}
        /\ StartsWith(state.final_answer, <<"F","a","i","l","e","d"," ","t","o"," ","f","e","t","c","h"," ","w","e","a","t","h","e","r"," ","d","a","t","a",":">>)
        /\ state.final_answer =
               <<"F","a","i","l","e","d"," ","t","o"," ","f","e","t","c","h"," ","w","e","a","t","h","e","r"," ","d","a","t","a",":">> \o <<" ">> \o returned.error
        /\ DOMAIN state.tool_results = {<<"w","e","a","t","h","e","r">>}
        /\ state.tool_results[<<"w","e","a","t","h","e","r">>] = returned
        /\ ~state.tool_results[<<"w","e","a","t","h","e","r">>].success

\* a weather run whose request timed out
C8_Witness ==
    /\ pc = "END"
    /\ trace = <<"router", "weather">>
    /\ http = Timeout
    /\ ~returned.success
    /\ StartsWith(state.final_answer, <<"F","a","i","l","e","d"," ","t","o"," ","f","e","t","c","h"," ","w","e","a","t","h","e","r"," ","d","a","t","a",":">>)

\* C9: when no word of the query is "weather", "in", "for" or "at", weather_node
\* passes the last word of the query to get_weather, and "London" when the
\* query has no words; the city passed is never empty.
C9_CityFallback ==
    (WeatherNodeRan /\ calls.get_weather = 1) =>
        LET words == split(state.query)
        IN  /\ (/\ words # <<>>
                /\ \A i \in 1..Len(words) : lower(words[i]) \notin city_indicators) =>
                   city_arg = words[Len(words)]
            /\ words = <<>> => city_arg = <<"L","o","n","d","o","n">>
            /\ city_arg # <<>>

\* weather_node called on the empty query
C9_Witness ==
    /\ WeatherNodeRan
    /\ calls.get_weather = 1
    /\ state.query = <<>>
    /\ city_arg = <<"L","o","n","d","o","n">>

\* C10: once initialize_components has found the PDF absent, the script never
\* invokes the graph again; a query is in the graph only when the collection
\* holds the splits of the PDF; and no step of an invoke changes the collection.
C10_BuildBeforeUse ==
    /\ [](pc # "idle" => (cache.hit /\ cache.vector_store # "None" /\ collection = splits))
    /\ [][(cache.hit /\ cache.vector_store = "None") =>
              (pc' = "idle" /\ cache' = cache /\ collection' = collection)]_vars
    /\ [][pc # "idle" => (collection' = collection /\ cache' = cache)]_vars

\* the PDF is in place now, but initialization has failed before: no agent
C10_Witness ==
    /\ cache.hit
    /\ cache.vector_store = "None"
    /\ pdf_exists
    /\ pc = "idle"
====
